---- MODULE Spec2Model ----
(***************************************************************************)
(* RideSecure: helmet-violation detection.                                 *)
(*                                                                         *)
(* Two programs of the repository are modelled.                            *)
(*                                                                         *)
(*  - detect_helmets.py, main(): the per-frame loop that classifies every  *)
(*    confirmed track as helmet / no-helmet and appends debounced rows to  *)
(*    csv_rows (specifications Spec and SpecContinuous).                   *)
(*  - ridesecure/detection/detection_service.py, DetectionService: the     *)
(*    per-frame fusion of no-helmet detections with license plates         *)
(*    (specification SpecService), and a single call of its                *)
(*    _find_nearest_plate (specification SpecNearest).                     *)
(*                                                                         *)
(* Boxes are tuples of integers.  Floating-point quantities are kept as    *)
(* exact rationals: an overlap ratio is the pair <<n, d>> standing for     *)
(* n / (d + 1e-9), a box centre is kept doubled, confidences are integers  *)
(* in thousandths, and a quotient of two of these is the pair <<n, d>>     *)
(* standing for n / d.                                                     *)
(***************************************************************************)
EXTENDS Integers, Sequences, FiniteSets, TLC

\* The keys of the dictionaries and the attributes of the objects of the two
\* programs that the records of the model keep, each with the place it comes
\* from.  Every record below lists its fields in this order.
FieldNames ==
    [ confirmed |-> "Track.is_confirmed()",
      ltrb |-> "Track.to_ltrb()",
      box |-> "helmet_boxes[i][0]",
      conf |-> "helmet_boxes[i][1]",
      frame_id |-> "csv_rows[i]['frame_id']",
      track_id |-> "csv_rows[i]['track_id']",
      class |-> "csv_rows[i]['class']",
      text |-> "plate['text']",
      bbox |-> "detection['bbox']",
      confidence |-> "detection['confidence']",
      pattern_match |-> "plate['pattern_match']",
      is_valid |-> "plate['pattern_match']['is_valid']",
      helmet_detections |-> "result['helmet_detections']",
      plate_detections |-> "result['plate_detections']",
      violations |-> "result['violations']",
      id |-> "violation_record['id']",
      timestamp_ms |-> "violation_record['timestamp_ms']",
      violation_type |-> "violation_record['violation_type']",
      helmet_detection |-> "violation_record['helmet_detection']",
      license_plate |-> "violation_record['license_plate']",
      confidence_score |-> "violation_record['confidence_score']",
      location_bbox |-> "violation_record['location_bbox']",
      has_license_plate |-> "violation_record['has_license_plate']",
      total_frames_processed |-> "stats['total_frames_processed']",
      violations_detected |-> "stats['violations_detected']",
      plates_detected |-> "stats['plates_detected']",
      processing_time_ms |-> "stats['processing_time_ms']",
      min_helmet_confidence |-> "config['min_helmet_confidence']",
      min_plate_confidence |-> "config['min_plate_confidence']",
      require_plate_for_violation |-> "config['require_plate_for_violation']",
      helmet_bbox |-> "helmet_bbox",
      plates |-> "plates",
      none |-> "None",
      persons |-> "persons",
      bikes |-> "bikes",
      treat_all_persons_as_riders |-> "args.treat_all_persons_as_riders",
      helmet_boxes_list |-> "helmet_boxes_list",
      head_fraction |-> "args.head_fraction",
      helmet_iou_threshold |-> "args.helmet_iou_threshold",
      raised |-> "the exception a call raised",
      video_info |-> "results['video_info']",
      duration_seconds |-> "results['video_info']['duration_seconds']",
      fps |-> "results['video_info']['fps']",
      total_frames |-> "results['video_info']['total_frames']",
      frames_processed |-> "results['video_info']['frames_processed']",
      detection_results |-> "results['detection_results']",
      total_violations |-> "results['detection_results']['total_violations']",
      violations_with_plates |-> "results['detection_results']['violations_with_plates']",
      unique_plates |-> "results['detection_results']['unique_plates']",
      violation_rate_per_minute |-> "results['detection_results']['violation_rate_per_minute']",
      performance_metrics |-> "results['performance_metrics']",
      avg_processing_time_ms |-> "results['performance_metrics']['avg_processing_time_ms']",
      processing_fps |-> "results['performance_metrics']['processing_fps']",
      total_processing_time_seconds |->
          "results['performance_metrics']['total_processing_time_seconds']",
      model_loaded |-> "helmet_detector.model is not None",
      ocr_reader_loaded |-> "plate_detector.ocr_reader is not None",
      failed_before |-> "a detector failed in an earlier call",
      model_loads |-> "HelmetDetector.load_model() returns True",
      inference_raises |-> "self.model(frame, ...) raises",
      boxes |-> "result.boxes",
      reader_loads |-> "PlateDetector.load_ocr_reader() returns True",
      cv_raises |-> "detect_plates_cv raises",
      regions |-> "plate_regions, by what OCR makes of each",
      a |-> "a",
      b |-> "b",
      india_old |-> "plate_patterns['india_old']",
      india_new |-> "plate_patterns['india_new']",
      standard |-> "plate_patterns['standard']",
      confidence_boost |-> "results['confidence_boost']",
      detections |-> "detections",
      scale_factor |-> "scale_factor",
      counter |-> "the key of self.stats the request writes next",
      loaded |-> "the value of that key the request has read for its +=",
      counted |-> "records the request has counted",
      returned |-> "len(result['violations']) of the request",
      frames |-> "the frames cap.read() delivers",
      skip_frames |-> "config['video_processing']['skip_frames']" ]

(***************************************************************************)
(* Bounds of the model.                                                    *)
(***************************************************************************)
\* number of frames of the video in Spec
MaxFrame == 4
\* number of frames of the video in SpecContinuous
MaxFrameLong == 100
\* frames of SpecContinuous in which the detectors are unconstrained
WarmupFrames == 1
\* calls of process_single_frame in SpecService
MaxCalls == 2
\* candidate plates of a call in SpecNearest
MaxPlates == 3
\* largest coordinate of a box in SpecOverlap
MaxCoord == 2
\* length of a text in SpecClean
MaxTextLen == 3
\* requests the HTTP front end handles at the same time in SpecThreaded
MaxThreads == 2
\* videos one service processes in SpecVideo
MaxVideos == 2

(***************************************************************************)
(* Program constants of detect_helmets.py.                                 *)
(***************************************************************************)
\* defaultdict(lambda: -9999): the last-logged frame of a track never logged
NeverLogged == -9999
\* --head-fraction, default 0.35 = HeadFractionNum / HeadFractionDen
HeadFractionNum == 35
HeadFractionDen == 100
\* --helmet-iou-threshold, default 0.1 = HelmetIouNum / HelmetIouDen
HelmetIouNum == 1
HelmetIouDen == 10
\* iou_box(person, bike) > 0.01 = RiderIouNum / RiderIouDen
RiderIouNum == 1
RiderIouDen == 100
\* dx < 1.5 * bike_w, 1.5 = RiderReachNum / RiderReachDen
RiderReachNum == 3
RiderReachDen == 2

\* the smallest --log-repeat-frames that frame 1 minus the sentinel does not reach
BigInterval == (1 - NeverLogged) + 1
\* the values of --log-repeat-frames (type=int, unchecked) tried in Spec
LogRepeatChoices == {0, 1, 2, 3, BigInterval}
\* the values of --log-repeat-frames tried in SpecContinuous
LogRepeatChoicesLong == {1, 2, 3, 30}

\* track identities the tracker hands out
TrackIds == {"t1", "t2"}
\* track.to_ltrb() of each track (riders stand still)
TrackBox(t) == IF t = "t1" THEN <<100, 100, 150, 200>> ELSE <<400, 100, 450, 200>>
\* helmet detections (x1, y1, x2, y2, conf) the helmet model can report
HelmetBoxChoices ==
    { [box |-> <<100, 95, 150, 115>>, conf |-> 900],
      [box |-> <<410, 90, 440, 110>>, conf |-> 700] }

Max(a, b) == IF a >= b THEN a ELSE b
Min(a, b) == IF a <= b THEN a ELSE b
\* int(): truncation towards zero of n / d, d > 0
TruncDiv(n, d) == IF n >= 0 THEN n \div d ELSE -((-n) \div d)

\* the sub-lists of a list: the elements at the indices S, in order
RECURSIVE Pick(_, _, _)
Pick(list, S, i) ==
    IF i > Len(list) THEN <<>>
    ELSE IF i \in S THEN <<list[i]>> \o Pick(list, S, i + 1)
    ELSE Pick(list, S, i + 1)

SubLists(list) == {Pick(list, S, 1) : S \in SUBSET (1..Len(list))}

\* the lists without repetition, of at most n elements of S
ListsOf(S, n) ==
    {q \in UNION {[1..k -> S] : k \in 0..n} :
        \A i, j \in 1..Len(q) : i # j => q[i] # q[j]}

(***************************************************************************)
(* Helpers of detect_helmets.py.                                           *)
(***************************************************************************)
\* an overlap ratio without the early return for boxes that do not intersect
IouBoxUnguarded(a, b) ==
    LET inter_area == (Min(a[3], b[3]) - Max(a[1], b[1])) * (Min(a[4], b[4]) - Max(a[2], b[2]))
        a_area == Max(0, a[3] - a[1]) * Max(0, a[4] - a[2])
        b_area == Max(0, b[3] - b[1]) * Max(0, b[4] - b[2])
    IN  <<inter_area, a_area + b_area - inter_area>>

\* an overlap ratio that divides by the area of the first box
IouOverFirstArea(a, b) ==
    LET inter_x1 == Max(a[1], b[1])
        inter_y1 == Max(a[2], b[2])
        inter_x2 == Min(a[3], b[3])
        inter_y2 == Min(a[4], b[4])
    IN  IF inter_x2 <= inter_x1 \/ inter_y2 <= inter_y1
        THEN <<0, 1>>
        ELSE <<(inter_x2 - inter_x1) * (inter_y2 - inter_y1),
               Max(0, a[3] - a[1]) * Max(0, a[4] - a[2])>>

\* iou_box(a, b) on [x1, y1, x2, y2] boxes; <<n, d>> is n / (d + 1e-9) and
\* <<0, 1>> is the early return 0.0
iou_box(a, b) ==
    LET inter_x1 == Max(a[1], b[1])
        inter_y1 == Max(a[2], b[2])
        inter_x2 == Min(a[3], b[3])
        inter_y2 == Min(a[4], b[4])
        inter_area == (inter_x2 - inter_x1) * (inter_y2 - inter_y1)
        a_area == Max(0, a[3] - a[1]) * Max(0, a[4] - a[2])
        b_area == Max(0, b[3] - b[1]) * Max(0, b[4] - b[2])
    IN  IF inter_x2 <= inter_x1 \/ inter_y2 <= inter_y1
        THEN <<0, 1>>
        ELSE <<inter_area, a_area + b_area - inter_area>>

\* ov >= n / d for an overlap ratio ov = <<i, u>>, d > 0, |n| * 1e-9 < 1:
\* i / (u + 1e-9) >= n / d  <=>  d * i >= n * u + n * 1e-9
OvAtLeast(ov, n, d) == d * ov[1] >= n * ov[2] + (IF n > 0 THEN 1 ELSE 0)

\* ov > n / d for an overlap ratio ov = <<i, u>>, d > 0, 0 <= n * 1e-9 < 1:
\* i / (u + 1e-9) > n / d  <=>  d * i > n * u + n * 1e-9  <=>  d * i > n * u
OvGreater(ov, n, d) == d * ov[1] > n * ov[2]

Abs(x) == IF x >= 0 THEN x ELSE -x

\* center(box), doubled: (x1 + x2, y1 + y2)
center2(box) == <<box[1] + box[3], box[2] + box[4]>>

\* head_bbox for head_h_frac = fn / fd: the top fraction of the person box,
\* head_y2 = int(t + (b - t) * head_h_frac)
HeadBox(ltrb, fn, fd) ==
    <<ltrb[1], ltrb[2], ltrb[3], TruncDiv(fd * ltrb[2] + (ltrb[4] - ltrb[2]) * fn, fd)>>

\* head_bbox under the default --head-fraction
head_bbox(ltrb) == HeadBox(ltrb, HeadFractionNum, HeadFractionDen)

\* a test whose head region excludes its boundary
MatchesStrictlyInside(head, hb, tn, td) ==
    LET c == center2(hb.box)
    IN  \/ OvAtLeast(iou_box(head, hb.box), tn, td)
        \/ /\ 2 * head[1] < c[1] /\ c[1] < 2 * head[3]
           /\ 2 * head[2] < c[2] /\ c[2] < 2 * head[4]

\* the test of one helmet box against the head region, for
\* args.helmet_iou_threshold = tn / td: ov >= threshold or inside
Matches(head, hb, tn, td) ==
    LET ov == iou_box(head, hb.box)
        c == center2(hb.box)
        inside == /\ 2 * head[1] <= c[1] /\ c[1] <= 2 * head[3]
                  /\ 2 * head[2] <= c[2] /\ c[2] <= 2 * head[4]
    IN  OvAtLeast(ov, tn, td) \/ inside

\* the test under the default --helmet-iou-threshold
HelmetMatches(head, hb) == Matches(head, hb, HelmetIouNum, HelmetIouDen)

\* the loop `for hb in helmet_boxes_list:` from index i on; the result is
\* (helmet_present, helmet_confidence_best)
RECURSIVE HelmetScan(_, _, _, _, _, _, _)
HelmetScan(head, helmet_boxes_list, tn, td, i, present, best) ==
    IF i > Len(helmet_boxes_list) THEN <<present, best>>
    ELSE IF Matches(head, helmet_boxes_list[i], tn, td)
         THEN HelmetScan(head, helmet_boxes_list, tn, td, i + 1, TRUE,
                         IF helmet_boxes_list[i].conf > best
                         THEN helmet_boxes_list[i].conf ELSE best)
         ELSE HelmetScan(head, helmet_boxes_list, tn, td, i + 1, present, best)

\* (helmet_present, helmet_confidence_best) of one track
classify_helmet(ltrb, helmet_boxes_list, fn, fd, tn, td) ==
    HelmetScan(HeadBox(ltrb, fn, fd), helmet_boxes_list, tn, td, 1, FALSE, 0)

\* helmet_present after the loop over helmet_boxes_list
HelmetPresent(ltrb, helmet_boxes) ==
    \E hb \in helmet_boxes : HelmetMatches(head_bbox(ltrb), hb)

(***************************************************************************)
(* State.                                                                  *)
(***************************************************************************)
VARIABLES
    \* detect_helmets.py main()
    pc,                       \* "loop": reading frames, "done": after the loop
    total_frames,             \* frames the capture delivers before ret is False
    log_repeat_frames,        \* args.log_repeat_frames
    frame_idx,                \* frames read so far
    tracks,                   \* tracker.update_tracks(...) of the last frame
    helmet_present,           \* helmet_present of every track evaluated in it
    track_last_logged_frame,  \* defaultdict(lambda: -9999), by its keys
    track_violation_state,    \* defaultdict(lambda: False), by its keys
    csv_rows,                 \* rows appended so far
    csv_saved,                \* the CSV file was written
    seen_present,             \* history: tracks seen with helmet since their last row
    run_start,                \* history: the row frame that began the track's
                              \* unbroken no-helmet run, 0 when there is none
    \* DetectionService
    config,                   \* self.config['violation_criteria']
    stats,                    \* self.stats
    result,                   \* what the last process_single_frame returned
    detectors,                \* which of helmet_detector.model and
                              \* plate_detector.ocr_reader are loaded; <<>> where
                              \* the outputs of the detectors are inputs of the model
    \* a single call of a pure function
    call_args,                \* its arguments
    call_ret                  \* <<>> before the call, <<value>> after it

mainVars == <<pc, total_frames, log_repeat_frames, frame_idx, tracks, helmet_present,
              track_last_logged_frame, track_violation_state, csv_rows, csv_saved,
              seen_present, run_start>>
serviceVars == <<config, stats, result, detectors>>
callVars == <<call_args, call_ret>>
vars == <<mainVars, serviceVars, callVars>>

(***************************************************************************)
(* detect_helmets.py main(): the frame loop.                               *)
(***************************************************************************)
\* d[k] of a defaultdict whose missing keys read as dflt
DictGet(d, k, dflt) == IF k \in DOMAIN d THEN d[k] ELSE dflt

\* a loop body without the is_confirmed() test
EvaluatedUnchecked(trk) == DOMAIN trk

\* the tracks the loop body runs for: is_confirmed() or continue
Evaluated(trk) == {t \in DOMAIN trk : trk[t].confirmed}

\* a loop body that logs every no-helmet frame
ShouldLogAlways(frame, last, interval) == TRUE

\* a loop body that compares with > instead of >=
ShouldLogStrict(frame, last, interval) == (frame - last) > interval

\* (frame_idx - last) >= args.log_repeat_frames
ShouldLog(frame, last, interval) == (frame - last) >= interval

\* a loop body without the else branch that clears the flag
ViolationStateKept(tvs, t, present, logged) ==
    IF logged THEN TRUE ELSE DictGet(tvs, t, FALSE)

\* track_violation_state[t] after one track's body
ViolationStateAfter(tvs, t, present, logged) ==
    IF present THEN FALSE
    ELSE IF logged THEN TRUE
    ELSE tvs[t]

\* a loop body that keeps one last logged frame for all the tracks
LastLoggedShared(tlf, t, frame, logged) ==
    IF logged THEN frame
    ELSE CHOOSE m \in {tlf[k] : k \in DOMAIN tlf} \cup {NeverLogged} :
            \A k \in DOMAIN tlf : tlf[k] <= m

\* track_last_logged_frame[t] after one track's body that found no helmet
LastLoggedAfter(tlf, t, frame, logged) ==
    IF logged THEN frame ELSE DictGet(tlf, t, NeverLogged)

\* the CSV row appended for a track (the columns that identify it)
CsvRow(frame, t) == [frame_id |-> frame, track_id |-> t, class |-> "no-helmet"]

\* the frames of the rows of one track
RowFrames(rows, t) == {r.frame_id : r \in {x \in rows : x.track_id = t}}

SetMax(S) == CHOOSE m \in S : \A x \in S : x <= m

MainInit ==
    /\ pc = "loop"
    /\ frame_idx = 0
    /\ tracks = <<>>
    /\ helmet_present = <<>>
    /\ track_last_logged_frame = <<>>
    /\ track_violation_state = <<>>
    /\ csv_rows = {}
    /\ csv_saved = FALSE
    /\ seen_present = {}
    /\ run_start = [t \in TrackIds |-> 0]

\* one iteration of `while True:` whose cap.read() delivers a frame
ProcessFrame(trk, helmet_boxes) ==
    /\ pc = "loop"
    /\ frame_idx < total_frames
    /\ LET frame == frame_idx + 1
           confirmed == Evaluated(trk)
           hp == [t \in confirmed |-> HelmetPresent(trk[t].ltrb, helmet_boxes)]
           present == {t \in confirmed : hp[t]}
           absent == {t \in confirmed : ~hp[t]}
           logged == {t \in absent :
                        ShouldLog(frame, DictGet(track_last_logged_frame, t, NeverLogged),
                                  log_repeat_frames)}
       IN  /\ frame_idx' = frame
           /\ tracks' = trk
           /\ helmet_present' = hp
           /\ track_last_logged_frame' =
                 [t \in (DOMAIN track_last_logged_frame) \cup absent |->
                     IF t \in absent
                     THEN LastLoggedAfter(track_last_logged_frame, t, frame, t \in logged)
                     ELSE track_last_logged_frame[t]]
           /\ track_violation_state' =
                 [t \in (DOMAIN track_violation_state) \cup present \cup logged |->
                     IF t \in confirmed
                     THEN ViolationStateAfter(track_violation_state, t, hp[t], t \in logged)
                     ELSE track_violation_state[t]]
           /\ csv_rows' = csv_rows \cup {CsvRow(frame, t) : t \in logged}
           /\ seen_present' = (seen_present \ logged) \cup present
           /\ run_start' =
                 [t \in TrackIds |->
                     IF t \notin absent THEN 0
                     ELSE IF t \in logged /\ run_start[t] = 0 THEN frame
                     ELSE run_start[t]]
    /\ UNCHANGED <<pc, total_frames, log_repeat_frames, csv_saved>>
    /\ UNCHANGED <<serviceVars, callVars>>

\* cap.read() returns ret = False: break, then save the CSV if any row exists
Finish ==
    /\ pc = "loop"
    /\ frame_idx = total_frames
    /\ pc' = "done"
    /\ csv_saved' = (Cardinality(csv_rows) > 0)
    /\ UNCHANGED <<total_frames, log_repeat_frames, frame_idx, tracks, helmet_present,
                   track_last_logged_frame, track_violation_state, csv_rows,
                   seen_present, run_start>>
    /\ UNCHANGED <<serviceVars, callVars>>

\* what the helmet model can report in a frame
HelmetBoxSets == SUBSET HelmetBoxChoices

\* what tracker.update_tracks can return: some tracks, confirmed or tentative
TrackerOutputs == UNION { [S -> BOOLEAN] : S \in SUBSET TrackIds }

TracksOf(conf) == [t \in DOMAIN conf |-> [confirmed |-> conf[t], ltrb |-> TrackBox(t)]]

(***************************************************************************)
(* Calls of iou_box on a pair of boxes, in both orders.                    *)
(***************************************************************************)
\* [x1, y1, x2, y2] boxes, among them boxes of zero area and boxes whose
\* x2 < x1 or y2 < y1
BoxChoices == (0..MaxCoord) \X (0..MaxCoord) \X (0..MaxCoord) \X (0..MaxCoord)

OverlapInit ==
    /\ call_args \in [a : BoxChoices, b : BoxChoices]
    /\ call_ret = <<>>

\* iou_box(a, b), then iou_box(b, a); call_ret lists the values returned
IouBox ==
    /\ call_args # <<>>
    /\ Len(call_ret) < 2
    /\ call_ret' = Append(call_ret,
                          IF call_ret = <<>>
                          THEN iou_box(call_args.a, call_args.b)
                          ELSE iou_box(call_args.b, call_args.a))
    /\ UNCHANGED <<call_args, mainVars, serviceVars>>

(***************************************************************************)
(* detect_helmets.py main(): the rider heuristic of one frame.  A person   *)
(* and a bike are tuples (x1, y1, x2, y2, conf).                           *)
(***************************************************************************)
\* (x1, y1, x2, y2) of a detection
BoxOf(det) == <<det[1], det[2], det[3], det[4]>>

\* the test of one person against one bike: the boxes overlap, or the
\* centres are close relative to the bike's width and height
NearBike(p, b) ==
    LET bike_w == b[3] - b[1]
        bike_h == b[4] - b[2]
        p_c == center2(BoxOf(p))
        b_c == center2(BoxOf(b))
        dx2 == Abs(p_c[1] - b_c[1])
        dy2 == Abs(p_c[2] - b_c[2])
    IN  \/ OvGreater(iou_box(BoxOf(p), BoxOf(b)), RiderIouNum, RiderIouDen)
        \/ /\ RiderReachDen * dx2 < 2 * RiderReachNum * bike_w
           /\ RiderReachDen * dy2 < 2 * RiderReachNum * bike_h

\* is_rider after the loop `for b in bikes:`
is_rider(p, bikes) == \E i \in 1..Len(bikes) : NearBike(p, bikes[i])

\* rider_candidates after the loop `for p in persons:`
RidersNearBikes(persons, bikes) == SelectSeq(persons, LAMBDA p : is_rider(p, bikes))

\* a frame in which the flag is never looked at
RiderCandidatesNoFallback(persons, bikes, treat_all) == RidersNearBikes(persons, bikes)

\* rider_candidates handed to the tracker: all persons when the flag is set
\* and the loop found no rider
rider_candidates(persons, bikes, treat_all) ==
    LET found == RidersNearBikes(persons, bikes)
    IN  IF treat_all /\ Len(found) = 0 THEN persons ELSE found

\* the bike of the frame, [90, 150, 80, 60] as (x1, y1, x2, y2), and one far away
BikeChoices ==
    << <<90, 150, 170, 210, 900>>, <<900, 500, 960, 540, 800>> >>

\* persons around the first bike: one that overlaps it, one whose centre is
\* 119.5 from its centre (1.5 * 80 = 120), one whose centre is exactly 120
\* from it, and one far from both bikes
PersonChoices ==
    << <<100, 100, 150, 200, 900>>, <<239, 130, 260, 230, 800>>,
       <<240, 130, 260, 230, 700>>, <<600, 100, 650, 200, 600>> >>

PersonLists == SubLists(PersonChoices)
BikeLists == SubLists(BikeChoices)

RidersInit ==
    /\ call_args \in [persons : PersonLists,
                      bikes : BikeLists,
                      treat_all_persons_as_riders : BOOLEAN]
    /\ call_ret = <<>>

\* the block "identify riders" of one frame
IdentifyRiders ==
    /\ call_args # <<>>
    /\ call_ret = <<>>
    /\ call_ret' = <<rider_candidates(call_args.persons, call_args.bikes,
                                      call_args.treat_all_persons_as_riders)>>
    /\ UNCHANGED <<call_args, mainVars, serviceVars>>

(***************************************************************************)
(* detect_helmets.py main(): the helmet test of one track.                 *)
(***************************************************************************)
\* track boxes of even and of odd height
RiderBoxChoices == { <<100, 100, 150, 200>>, <<100, 100, 150, 201>> }

\* helmet boxes around the head region (100, 100, 150, 135): one over the
\* head, one whose centre is the corner (150, 135) of the region, one of
\* overlap 210 / 2100 with its centre below the region, one of overlap
\* 200 / 1998 with its centre below the region, and one far away
HeadgearChoices ==
    << [box |-> <<100, 95, 150, 115>>, conf |-> 900],
       [box |-> <<140, 125, 160, 145>>, conf |-> 950],
       [box |-> <<120, 114, 130, 170>>, conf |-> 990],
       [box |-> <<120, 110, 128, 166>>, conf |-> 600],
       [box |-> <<410, 90, 440, 110>>, conf |-> 700] >>

HeadgearLists == SubLists(HeadgearChoices)

\* values of --head-fraction and of --helmet-iou-threshold, as <<num, den>>
HeadFractionChoices == { <<HeadFractionNum, HeadFractionDen>>, <<1, 2>> }
HelmetIouChoices == { <<HelmetIouNum, HelmetIouDen>>, <<1, 2>> }

HeadgearInit ==
    /\ call_args \in [ltrb : RiderBoxChoices,
                      helmet_boxes_list : HeadgearLists,
                      head_fraction : HeadFractionChoices,
                      helmet_iou_threshold : HelmetIouChoices]
    /\ call_ret = <<>>

\* the helmet test of the loop body of one confirmed track
ClassifyHelmet ==
    /\ call_args # <<>>
    /\ call_ret = <<>>
    /\ call_ret' = <<classify_helmet(call_args.ltrb, call_args.helmet_boxes_list,
                                     call_args.head_fraction[1],
                                     call_args.head_fraction[2],
                                     call_args.helmet_iou_threshold[1],
                                     call_args.helmet_iou_threshold[2])>>
    /\ UNCHANGED <<call_args, mainVars, serviceVars>>

(***************************************************************************)
(* DetectionService (detection_service.py).  Boxes are [x, y, w, h].       *)
(***************************************************************************)
\* license_plate of a record without plate, and the return value for no plates
None == [none |-> TRUE]

\* plate.get('pattern_match', {}).get('is_valid', False)
PatternValid(plate) ==
    IF "pattern_match" \in DOMAIN plate THEN plate.pattern_match.is_valid ELSE FALSE

\* a filter that takes every plate of at least min_plate_confidence
ValidPlatesByConfidence(plate_detections, cfg) ==
    SelectSeq(plate_detections,
              LAMBDA plate : plate.confidence >= cfg.min_plate_confidence)

\* helmet_violations: NO_HELMET detections of at least min_helmet_confidence
HelmetViolations(helmet_detections, cfg) ==
    SelectSeq(helmet_detections,
              LAMBDA det : /\ det.violation_type = "NO_HELMET"
                           /\ det.confidence >= cfg.min_helmet_confidence)

\* valid_plates: plates of at least min_plate_confidence with a valid pattern
ValidPlates(plate_detections, cfg) ==
    SelectSeq(plate_detections,
              LAMBDA plate : /\ plate.confidence >= cfg.min_plate_confidence
                             /\ PatternValid(plate))

\* [x + w // 2, y + h // 2]
BoxCenter(bbox) == <<bbox[1] + (bbox[3] \div 2), bbox[2] + (bbox[4] \div 2)>>

\* the square of the distance np.sqrt(...) is taken of; sqrt keeps the order
\* and the ties of these integers
Distance2(c1, c2) == (c1[1] - c2[1]) * (c1[1] - c2[1]) + (c1[2] - c2[2]) * (c1[2] - c2[2])

\* a scan that lets a later plate at the same distance win
DistanceLessOrEqual(distance, min_distance) ==
    min_distance = <<>> \/ distance <= min_distance[1]

\* a scan that keeps the farthest plate
DistanceGreater(distance, min_distance) ==
    min_distance = <<>> \/ distance > min_distance[1]

\* distance < min_distance, where min_distance is <<>> for float('inf')
DistanceLess(distance, min_distance) ==
    min_distance = <<>> \/ distance < min_distance[1]

\* the loop `for plate in plates:` from index i on
RECURSIVE NearestScan(_, _, _, _, _)
NearestScan(helmet_center, plates, i, min_distance, nearest_plate) ==
    IF i > Len(plates) THEN nearest_plate
    ELSE LET distance == Distance2(helmet_center, BoxCenter(plates[i].bbox))
         IN  IF DistanceLess(distance, min_distance)
             THEN NearestScan(helmet_center, plates, i + 1, <<distance>>, plates[i])
             ELSE NearestScan(helmet_center, plates, i + 1, min_distance, nearest_plate)

\* _find_nearest_plate(helmet_bbox, plates)
find_nearest_plate(helmet_bbox, plates) ==
    IF plates = <<>> THEN None
    ELSE NearestScan(BoxCenter(helmet_bbox), plates, 1, <<>>, None)

\* a record whose score is the plate's confidence alone
FusedConfidencePlateOnly(violation, nearest_plate) ==
    IF nearest_plate # None
    THEN <<nearest_plate.confidence, 1>>
    ELSE <<violation.confidence, 1>>

\* confidence_score of a record: (violation + plate) / 2 with a plate, the
\* violation's own confidence without; <<n, d>> is n / d
FusedConfidence(violation, nearest_plate) ==
    IF nearest_plate # None
    THEN <<violation.confidence + nearest_plate.confidence, 2>>
    ELSE <<violation.confidence, 1>>

\* the record built for one helmet violation, n records being kept so far
ViolationRecord(violation, valid_plates, timestamp_ms, n) ==
    LET nearest_plate == IF valid_plates # <<>>
                         THEN find_nearest_plate(violation.bbox, valid_plates)
                         ELSE None
    IN  [id |-> <<"violation", timestamp_ms, n>>,
         timestamp_ms |-> timestamp_ms,
         violation_type |-> "NO_HELMET",
         helmet_detection |-> violation,
         license_plate |-> nearest_plate,
         confidence_score |-> FusedConfidence(violation, nearest_plate),
         location_bbox |-> violation.bbox,
         has_license_plate |-> Len(valid_plates) > 0]

\* a gate that keeps every record
SkippedNever(record, cfg) == FALSE

\* `continue`: the record is dropped when a plate is required and it has none
Skipped(record, cfg) ==
    cfg.require_plate_for_violation /\ record.license_plate = None

\* the loop `for violation in helmet_violations:` from index i on
RECURSIVE IdentifyLoop(_, _, _, _, _, _)
IdentifyLoop(helmet_violations, valid_plates, timestamp_ms, cfg, i, violations) ==
    IF i > Len(helmet_violations) THEN violations
    ELSE LET record == ViolationRecord(helmet_violations[i], valid_plates,
                                       timestamp_ms, Len(violations))
         IN  IdentifyLoop(helmet_violations, valid_plates, timestamp_ms, cfg, i + 1,
                          IF Skipped(record, cfg) THEN violations
                          ELSE Append(violations, record))

\* the list _identify_violations returns
identify_violations(helmet_detections, plate_detections, timestamp_ms, cfg) ==
    IdentifyLoop(HelmetViolations(helmet_detections, cfg),
                 ValidPlates(plate_detections, cfg), timestamp_ms, cfg, 1, <<>>)

\* a counter incremented before the plate is looked at
ViolationsCountedBeforeGate(helmet_detections, plate_detections, timestamp_ms, cfg) ==
    Len(HelmetViolations(helmet_detections, cfg))

\* how often _identify_violations executes self.stats['violations_detected'] += 1:
\* once for every helmet violation whose iteration is not left by `continue`
ViolationsCounted(helmet_detections, plate_detections, timestamp_ms, cfg) ==
    LET helmet_violations == HelmetViolations(helmet_detections, cfg)
        valid_plates == ValidPlates(plate_detections, cfg)
    IN  Cardinality({i \in 1..Len(helmet_violations) :
            ~Skipped(ViolationRecord(helmet_violations[i], valid_plates, timestamp_ms, 0), cfg)})

\* v * scale_factor rounded down
ScaleFloor(v, sn, sd) == (v * sn) \div sd

\* int(v * scale_factor) for scale_factor = sn / sd
ScaleInt(v, sn, sd) == TruncDiv(v * sn, sd)

\* _scale_detections(detections, scale_factor): a copy with the bbox scaled
scale_detections(detections, sn, sd) ==
    [i \in 1..Len(detections) |->
        IF "bbox" \in DOMAIN detections[i]
        THEN [detections[i] EXCEPT !.bbox = <<ScaleInt(@[1], sn, sd), ScaleInt(@[2], sn, sd),
                                              ScaleInt(@[3], sn, sd), ScaleInt(@[4], sn, sd)>>]
        ELSE detections[i]]

\* _get_default_config()['violation_criteria'], confidences in thousandths
MinHelmetConfidence == 500
MinPlateConfidence == 600
\* _get_default_config()['video_processing']['resize_width']
ResizeWidth == 640

ServiceInit ==
    /\ config \in [min_helmet_confidence : {MinHelmetConfidence},
                   min_plate_confidence : {MinPlateConfidence},
                   require_plate_for_violation : BOOLEAN]
    /\ stats = [total_frames_processed |-> 0,
                violations_detected |-> 0,
                plates_detected |-> 0,
                processing_time_ms |-> <<>>]
    /\ result = <<>>

\* self.stats after process_single_frame on a frame with these detections
StatsAfterFrame(st, helmets, plates, timestamp_ms, processing_time, cfg) ==
    [total_frames_processed |-> st.total_frames_processed + 1,
     violations_detected |->
         st.violations_detected + ViolationsCounted(helmets, plates, timestamp_ms, cfg),
     plates_detected |-> st.plates_detected + Len(ValidPlates(plates, cfg)),
     processing_time_ms |-> Append(st.processing_time_ms, processing_time)]

\* process_single_frame(frame, timestamp_ms) from the point where the
\* detectors have returned: frame of width frame_width, the detectors
\* returning helmet_detections and plate_detections on the resized frame, the
\* call taking processing_time milliseconds
ProcessedFrame(frame_width, helmet_detections, plate_detections, timestamp_ms, processing_time) ==
    /\ stats # <<>>
    /\ stats.total_frames_processed < MaxCalls
    /\ LET resized == frame_width > ResizeWidth
           helmets == IF resized
                      THEN scale_detections(helmet_detections, frame_width, ResizeWidth)
                      ELSE helmet_detections
           plates == IF resized
                     THEN scale_detections(plate_detections, frame_width, ResizeWidth)
                     ELSE plate_detections
           violations == identify_violations(helmets, plates, timestamp_ms, config)
       IN  /\ stats' = StatsAfterFrame(stats, helmets, plates, timestamp_ms,
                                        processing_time, config)
           /\ result' = [helmet_detections |-> helmets,
                         plate_detections |-> plates,
                         violations |-> violations,
                         timestamp_ms |-> timestamp_ms,
                         processing_time_ms |-> processing_time]
    /\ UNCHANGED <<config, mainVars>>

\* process_single_frame(frame, timestamp_ms), the outputs of the detectors given
ProcessSingleFrame(frame_width, helmet_detections, plate_detections, timestamp_ms, processing_time) ==
    /\ ProcessedFrame(frame_width, helmet_detections, plate_detections,
                      timestamp_ms, processing_time)
    /\ UNCHANGED <<detectors, callVars>>

\* process_single_frame called one time after another on one service;
\* call_ret lists, for every call that has returned, the ids of the records
\* in the 'violations' of its result
ProcessSingleFrameInSession(frame_width, helmet_detections, plate_detections, timestamp_ms, processing_time) ==
    /\ Len(call_ret) < MaxCalls
    /\ ProcessedFrame(frame_width, helmet_detections, plate_detections,
                      timestamp_ms, processing_time)
    /\ call_ret' = Append(call_ret, [i \in DOMAIN result'.violations |-> result'.violations[i].id])
    /\ UNCHANGED <<detectors, call_args>>

(***************************************************************************)
(* The detectors behind process_single_frame.                              *)
(***************************************************************************)
\* a detector that never loads its model
DetectViolationsNoLoad(model_loaded, model_loads, inference_raises, boxes) ==
    IF ~model_loaded THEN <<FALSE, <<>>>>
    ELSE IF inference_raises THEN <<TRUE, <<>>>>
    ELSE <<TRUE, boxes>>

\* HelmetDetector.detect_violations(frame, confidence_threshold): the pair of
\* `self.model is not None` after the call and the list returned.  A model
\* that is None is loaded first, and [] is returned when load_model() fails
\* and when inference raises; boxes are the detections of a run without fault
detect_violations(model_loaded, model_loads, inference_raises, boxes) ==
    IF ~model_loaded /\ ~model_loads THEN <<FALSE, <<>>>>
    ELSE IF inference_raises THEN <<TRUE, <<>>>>
    ELSE <<TRUE, boxes>>

\* PlateDetector.extract_plate_text(frame, plate_region): the pair of
\* `self.ocr_reader is not None` after the call and the value returned;
\* plate_info is what OCR makes of the region, None when it reads nothing or
\* raises
extract_plate_text(reader_loaded, reader_loads, plate_info) ==
    IF ~reader_loaded /\ ~reader_loads THEN <<FALSE, None>>
    ELSE <<TRUE, plate_info>>

\* the loop `for region in plate_regions:` of process_frame from index i on
RECURSIVE PlateScan(_, _, _, _, _)
PlateScan(regions, i, reader_loaded, reader_loads, plate_results) ==
    IF i > Len(regions) THEN <<reader_loaded, plate_results>>
    ELSE LET extracted == extract_plate_text(reader_loaded, reader_loads, regions[i])
         IN  PlateScan(regions, i + 1, extracted[1], reader_loads,
                       IF extracted[2] # None
                       THEN Append(plate_results, extracted[2])
                       ELSE plate_results)

\* PlateDetector.process_frame(frame): the pair of `self.ocr_reader is not
\* None` after the call and plate_results; detect_plates_cv returns [] when
\* it raises
process_frame(reader_loaded, reader_loads, cv_raises, regions) ==
    PlateScan(IF cv_raises THEN <<>> ELSE regions, 1, reader_loaded, reader_loads, <<>>)

\* whether the helmet detector, or the whole plate step, fails in a call
HelmetStepFails(d, env) == (~d.model_loaded /\ ~env.model_loads) \/ env.inference_raises
PlateStepFails(d, env) == env.cv_raises \/ (~d.ocr_reader_loaded /\ ~env.reader_loads)

(***************************************************************************)
(* Inputs of the service.                                                  *)
(***************************************************************************)
\* what helmet_detector.detect_violations can return: any of these objects
HelmetDetChoices ==
    << [bbox |-> <<100, 100, 50, 50>>, confidence |-> 800, violation_type |-> "NO_HELMET"],
       [bbox |-> <<120, 100, 50, 50>>, confidence |-> 600, violation_type |-> "NO_HELMET"],
       [bbox |-> <<300, 100, 50, 50>>, confidence |-> 900, violation_type |-> "HELMET_OK"] >>

\* what plate_detector.process_frame can return: any of these plates
PlateChoices ==
    << [text |-> "MH12AB1234", bbox |-> <<110, 140, 60, 20>>, confidence |-> 900,
        pattern_match |-> [is_valid |-> TRUE]],
       [text |-> "KA01C5678", bbox |-> <<200, 200, 50, 20>>, confidence |-> 700,
        pattern_match |-> [is_valid |-> TRUE]],
       [text |-> "1NVAL1D", bbox |-> <<105, 130, 60, 20>>, confidence |-> 950,
        pattern_match |-> [is_valid |-> FALSE]] >>

HelmetDetectionLists == SubLists(HelmetDetChoices)
PlateDetectionLists == SubLists(PlateChoices)
FrameWidthChoices == {ResizeWidth, 2 * ResizeWidth}
TimestampChoices == {0, 1000}
ProcessingTimeChoices == {7}

(***************************************************************************)
(* process_single_frame with detectors that can fail.                      *)
(***************************************************************************)
\* what the helmet model finds in a frame when nothing fails
DegradedBoxLists ==
    { <<HelmetDetChoices[1]>>, <<HelmetDetChoices[1], HelmetDetChoices[2]>> }

\* the plate regions of a frame, by what OCR makes of each
DegradedRegionLists == SubLists(<<PlateChoices[1], None>>)

\* the timestamp of every call
DegradedTimestamps == {0}

\* what can happen to the detectors during one call
DetectorEnvironments ==
    [model_loads : BOOLEAN, inference_raises : BOOLEAN, boxes : DegradedBoxLists,
     reader_loads : BOOLEAN, cv_raises : BOOLEAN, regions : DegradedRegionLists]

DegradedInit ==
    /\ ServiceInit
    /\ detectors = [model_loaded |-> FALSE, ocr_reader_loaded |-> FALSE]
    /\ call_args = <<>>
    /\ call_ret = <<>>

\* process_single_frame(frame, timestamp_ms) with its detectors in the
\* environment env; call_args keeps env and whether a detector failed in an
\* earlier call
ProcessSingleFrameDegraded(env, timestamp_ms, processing_time) ==
    /\ detectors # <<>>
    /\ LET helmets == detect_violations(detectors.model_loaded, env.model_loads,
                                        env.inference_raises, env.boxes)
           plates == process_frame(detectors.ocr_reader_loaded, env.reader_loads,
                                   env.cv_raises, env.regions)
       IN  /\ ProcessedFrame(ResizeWidth, helmets[2], plates[2], timestamp_ms, processing_time)
           /\ detectors' = [model_loaded |-> helmets[1], ocr_reader_loaded |-> plates[1]]
           /\ call_args' =
                 [failed_before |->
                      /\ call_args # <<>>
                      /\ \/ call_args.failed_before
                         \/ call_ret[1],
                  model_loads |-> env.model_loads,
                  inference_raises |-> env.inference_raises,
                  boxes |-> env.boxes,
                  reader_loads |-> env.reader_loads,
                  cv_raises |-> env.cv_raises,
                  regions |-> env.regions]
           /\ call_ret' = <<HelmetStepFails(detectors, env) \/ PlateStepFails(detectors, env)>>

(***************************************************************************)
(* detection_api.py: app.run(threaded=True) on the module-level            *)
(* detection_service.  Every request runs process_single_frame in a thread *)
(* of its own on that one service; `self.stats[key] += n` reads the key    *)
(* and writes it back in two steps, between which other threads can run.   *)
(* call_args[r] is the frame of request r by what the detectors make of    *)
(* it, call_ret[r] is where its thread is.                                 *)
(***************************************************************************)
Threads == 1..MaxThreads

\* frames of the requests, by the detections found in them
RequestChoices ==
    { [helmet_detections |-> <<>>, plate_detections |-> <<>>, timestamp_ms |-> 0],
      [helmet_detections |-> <<HelmetDetChoices[1]>>, plate_detections |-> <<PlateChoices[1]>>,
       timestamp_ms |-> 0],
      [helmet_detections |-> <<HelmetDetChoices[1], HelmetDetChoices[2]>>,
       plate_detections |-> <<>>, timestamp_ms |-> 0] }

\* the increments of violations_detected that request r executes
CountedBy(r) ==
    ViolationsCounted(call_args[r].helmet_detections, call_args[r].plate_detections,
                      call_args[r].timestamp_ms, config)

\* -1: nothing read, nothing returned
ThreadedInit ==
    /\ call_args \in [Threads -> RequestChoices]
    /\ call_ret = [r \in Threads |->
                      [counter |-> "violations_detected", loaded |-> -1,
                       counted |-> 0, returned |-> -1]]

\* the read of `self.stats[key] += n`; the loop of _identify_violations reads
\* violations_detected once for every record it keeps and plates_detected
\* after the loop
LoadCounter(r) ==
    /\ call_ret[r].loaded = -1
    /\ \/ /\ call_ret[r].counter = "violations_detected"
          /\ IF call_ret[r].counted < CountedBy(r)
             THEN call_ret' = [call_ret EXCEPT ![r].loaded = stats.violations_detected]
             ELSE call_ret' = [call_ret EXCEPT ![r].counter = "plates_detected",
                                               ![r].loaded = stats.plates_detected]
       \/ /\ call_ret[r].counter = "plates_detected"
          /\ call_ret' = [call_ret EXCEPT ![r].loaded = stats.plates_detected]
       \/ /\ call_ret[r].counter = "total_frames_processed"
          /\ call_ret' = [call_ret EXCEPT ![r].loaded = stats.total_frames_processed]
    /\ UNCHANGED <<call_args, mainVars, serviceVars>>

\* the write of `self.stats[key] += n`
StoreCounter(r) ==
    /\ call_ret[r].loaded # -1
    /\ \/ /\ call_ret[r].counter = "violations_detected"
          /\ stats' = [stats EXCEPT !.violations_detected = call_ret[r].loaded + 1]
          /\ call_ret' = [call_ret EXCEPT ![r].loaded = -1, ![r].counted = @ + 1]
       \/ /\ call_ret[r].counter = "plates_detected"
          /\ stats' = [stats EXCEPT !.plates_detected =
                          call_ret[r].loaded + Len(ValidPlates(call_args[r].plate_detections, config))]
          /\ call_ret' = [call_ret EXCEPT ![r].counter = "processing_time_ms", ![r].loaded = -1]
       \/ /\ call_ret[r].counter = "total_frames_processed"
          /\ stats' = [stats EXCEPT !.total_frames_processed = call_ret[r].loaded + 1]
          /\ call_ret' = [call_ret EXCEPT
                             ![r].counter = "done",
                             ![r].loaded = -1,
                             ![r].returned =
                                 Len(identify_violations(call_args[r].helmet_detections,
                                                         call_args[r].plate_detections,
                                                         call_args[r].timestamp_ms, config))]
    /\ UNCHANGED <<call_args, config, result, detectors, mainVars>>

\* self.stats['processing_time_ms'].append(processing_time)
AppendProcessingTime(r) ==
    /\ call_ret[r].counter = "processing_time_ms"
    /\ stats' = [stats EXCEPT !.processing_time_ms = Append(@, 7)]
    /\ call_ret' = [call_ret EXCEPT ![r].counter = "total_frames_processed"]
    /\ UNCHANGED <<call_args, config, result, detectors, mainVars>>

(***************************************************************************)
(* A single call of _find_nearest_plate.                                   *)
(***************************************************************************)
\* candidate plates around the helmet box [100, 100, 50, 50], centre (125, 125):
\* centres at distance 10 (twice, one of them 10.5 away before the halves of
\* the odd width are floored), 30 and 50
NearestPlateChoices ==
    { [text |-> "A", bbox |-> <<130, 120, 11, 10>>],
      [text |-> "B", bbox |-> <<110, 120, 10, 10>>],
      [text |-> "C", bbox |-> <<120, 150, 10, 10>>],
      [text |-> "D", bbox |-> <<170, 120, 10, 10>>] }

NearestHelmetChoices == { <<100, 100, 50, 50>>, <<101, 100, 49, 51>> }

CallInit ==
    /\ call_args \in [helmet_bbox : NearestHelmetChoices,
                      plates : ListsOf(NearestPlateChoices, MaxPlates)]
    /\ call_ret = <<>>

FindNearestPlate ==
    /\ call_args # <<>>
    /\ call_ret = <<>>
    /\ call_ret' = <<find_nearest_plate(call_args.helmet_bbox, call_args.plates)>>
    /\ UNCHANGED <<call_args, mainVars, serviceVars>>

(***************************************************************************)
(* A single call of _identify_violations on a new service.                 *)
(***************************************************************************)
\* plates around the helmet boxes of HelmetDetChoices: a valid one far away,
\* a valid one of exactly the minimum confidence, and three nearer ones that
\* are below the minimum confidence, of invalid pattern, and without the
\* 'pattern_match' key
IdentifyPlateChoices ==
    << [text |-> "KA01C5678", bbox |-> <<200, 200, 50, 20>>, confidence |-> 705,
        pattern_match |-> [is_valid |-> TRUE]],
       [text |-> "MH12AB1234", bbox |-> <<110, 140, 60, 20>>, confidence |-> 600,
        pattern_match |-> [is_valid |-> TRUE]],
       [text |-> "DL3CAB1234", bbox |-> <<105, 115, 40, 20>>, confidence |-> 599,
        pattern_match |-> [is_valid |-> TRUE]],
       [text |-> "1NVAL1D", bbox |-> <<105, 116, 40, 20>>, confidence |-> 950,
        pattern_match |-> [is_valid |-> FALSE]],
       [text |-> "GJ05XY9999", bbox |-> <<106, 115, 40, 20>>, confidence |-> 990] >>

IdentifyPlateLists == SubLists(IdentifyPlateChoices)

IdentifyInit ==
    /\ call_args \in [helmet_detections : HelmetDetectionLists,
                      plate_detections : IdentifyPlateLists,
                      timestamp_ms : TimestampChoices]
    /\ call_ret = <<>>

\* _identify_violations(helmet_detections, plate_detections, timestamp_ms)
IdentifyViolations ==
    /\ call_args # <<>>
    /\ call_ret = <<>>
    /\ LET violations == identify_violations(call_args.helmet_detections,
                                             call_args.plate_detections,
                                             call_args.timestamp_ms, config)
       IN  /\ call_ret' = <<violations>>
           /\ stats' = [stats EXCEPT
                           !.violations_detected =
                               @ + ViolationsCounted(call_args.helmet_detections,
                                                     call_args.plate_detections,
                                                     call_args.timestamp_ms, config),
                           !.plates_detected =
                               @ + Len(ValidPlates(call_args.plate_detections, config))]
    /\ UNCHANGED <<call_args, config, result, detectors, mainVars>>

(***************************************************************************)
(* A single call of _generate_results_summary.                             *)
(***************************************************************************)
\* what a call that does not return leaves: Python raised ZeroDivisionError
ZeroDivisionError == [raised |-> "ZeroDivisionError"]

RECURSIVE SeqSum(_)
SeqSum(list) == IF list = <<>> THEN 0 ELSE Head(list) + SeqSum(Tail(list))

\* the violations of a list that carry a plate: `if v['license_plate']`
WithPlate(violations) == SelectSeq(violations, LAMBDA v : v.license_plate # None)

\* _generate_results_summary(violations, video_path, fps, total_frames) on a
\* service whose stats are st, frame_count being its argument total_frames;
\* quotients are pairs <<n, d>>.  The divisions
\* total_frames / fps and len(violations) / (duration_seconds / 60) raise
\* when their divisor is zero.
generate_results_summary(violations, fps, frame_count, st) ==
    LET times == st.processing_time_ms
        avg_processing_time == IF times # <<>> THEN <<SeqSum(times), Len(times)>> ELSE <<0, 1>>
    IN  IF fps = 0 THEN ZeroDivisionError
        ELSE IF frame_count = 0 THEN ZeroDivisionError
        ELSE [violations |-> violations,
              video_info |->
                  [duration_seconds |-> <<frame_count, fps>>,
                   fps |-> fps,
                   total_frames |-> frame_count,
                   frames_processed |-> st.total_frames_processed],
              detection_results |->
                  [total_violations |-> Len(violations),
                   violations_with_plates |-> Len(WithPlate(violations)),
                   unique_plates |->
                       Cardinality({WithPlate(violations)[i].license_plate.text :
                                       i \in 1..Len(WithPlate(violations))}),
                   violation_rate_per_minute |-> <<Len(violations) * 60 * fps, frame_count>>],
              performance_metrics |->
                  [avg_processing_time_ms |-> avg_processing_time,
                   processing_fps |->
                       IF avg_processing_time[1] > 0
                       THEN <<1000 * avg_processing_time[2], avg_processing_time[1]>>
                       ELSE <<0, 1>>,
                   total_processing_time_seconds |-> <<SeqSum(times), 1000>>]]

\* violation records a session can have collected: two that carry the same
\* plate and one without plate
SummaryViolationChoices ==
    << ViolationRecord(HelmetDetChoices[1], <<PlateChoices[1]>>, 0, 0),
       ViolationRecord(HelmetDetChoices[2], <<PlateChoices[1]>>, 0, 1),
       ViolationRecord(HelmetDetChoices[1], <<>>, 1000, 0) >>

SummaryViolationLists == SubLists(SummaryViolationChoices)

\* cap.get(cv2.CAP_PROP_FPS) and cap.get(cv2.CAP_PROP_FRAME_COUNT)
FpsChoices == {0, 25, 30}
FrameCountChoices == {0, 1, 1800}

\* stats['processing_time_ms'] of the service when the summary is made
ProcessingTimeLists == { <<>>, <<0>>, <<7>>, <<6, 9>> }

SummaryInit ==
    /\ config \in [min_helmet_confidence : {MinHelmetConfidence},
                   min_plate_confidence : {MinPlateConfidence},
                   require_plate_for_violation : {FALSE}]
    /\ stats \in {[total_frames_processed |-> Len(times),
                    violations_detected |-> 0,
                    plates_detected |-> 0,
                    processing_time_ms |-> times] : times \in ProcessingTimeLists}
    /\ result = <<>>
    /\ call_args \in [violations : SummaryViolationLists,
                      fps : FpsChoices,
                      total_frames : FrameCountChoices]
    /\ call_ret = <<>>

GenerateResultsSummary ==
    /\ call_args # <<>>
    /\ call_ret = <<>>
    /\ call_ret' = <<generate_results_summary(call_args.violations, call_args.fps,
                                              call_args.total_frames, stats)>>
    /\ UNCHANGED <<call_args, mainVars, serviceVars>>

(***************************************************************************)
(* process_video_file, called for one video after another on one service.  *)
(* A video is the list of its frames, a frame the detections found in it;  *)
(* CAP_PROP_FRAME_COUNT is the number of frames the capture delivers.      *)
(***************************************************************************)
\* cap.get(cv2.CAP_PROP_FPS)
VideoFps == 25

\* the loop `while True:` from frame current_frame on: the stats, the
\* violations collected and the number of calls of process_single_frame
RECURSIVE VideoLoop(_, _, _, _, _, _, _)
VideoLoop(frames, skip_frames, cfg, current_frame, st, violations, processed) ==
    IF current_frame >= Len(frames) THEN <<st, violations, processed>>
    ELSE IF current_frame % (skip_frames + 1) # 0
    THEN VideoLoop(frames, skip_frames, cfg, current_frame + 1, st, violations, processed)
    ELSE LET frame == frames[current_frame + 1]
             timestamp_ms == (current_frame * 1000) \div VideoFps
         IN  VideoLoop(frames, skip_frames, cfg, current_frame + 1,
                       StatsAfterFrame(st, frame.helmet_detections, frame.plate_detections,
                                       timestamp_ms, 7, cfg),
                       violations \o identify_violations(frame.helmet_detections,
                                                         frame.plate_detections,
                                                         timestamp_ms, cfg),
                       processed + 1)

\* frames: without detections, with a violation and a plate, with two
\* violations near one plate, and with a violation and no plate
VideoFrameChoices ==
    { [helmet_detections |-> <<>>, plate_detections |-> <<>>],
      [helmet_detections |-> <<HelmetDetChoices[1]>>, plate_detections |-> <<PlateChoices[1]>>],
      [helmet_detections |-> <<HelmetDetChoices[1], HelmetDetChoices[2]>>,
       plate_detections |-> <<PlateChoices[1]>>],
      [helmet_detections |-> <<HelmetDetChoices[1]>>, plate_detections |-> <<>>] }

VideoChoices == [1..1 -> VideoFrameChoices] \cup [1..2 -> VideoFrameChoices]
SkipFramesChoices == {0, 1}

\* process_video_file(video_path): result is the summary returned, call_ret
\* the number of frames of this video given to process_single_frame
ProcessVideoFile(frames, skip_frames) ==
    /\ stats # <<>>
    /\ Len(call_ret) < MaxVideos
    /\ LET end == VideoLoop(frames, skip_frames, config, 0, stats, <<>>, 0)
       IN  /\ stats' = end[1]
           /\ result' = generate_results_summary(end[2], VideoFps, Len(frames), end[1])
           /\ call_ret' = Append(call_ret, end[3])
    /\ call_args' = [frames |-> frames, skip_frames |-> skip_frames]
    /\ UNCHANGED <<config, detectors, mainVars>>

(***************************************************************************)
(* A single call of _scale_detections.  scale_factor is the pair <<n, d>>. *)
(***************************************************************************)
\* detections of a frame: the one of the repository's test, one at negative
\* coordinates, one with further keys, and one without 'bbox'
ScaleDetectionChoices ==
    << [bbox |-> <<100, 100, 50, 50>>, confidence |-> 800],
       [bbox |-> <<-7, -1, 25, 31>>, confidence |-> 650],
       [text |-> "MH12AB1234", bbox |-> <<110, 140, 61, 20>>, confidence |-> 900,
        pattern_match |-> [is_valid |-> TRUE]],
       [confidence |-> 700] >>

ScaleFactorChoices == { <<2, 1>>, <<3, 2>>, <<1, 3>>, <<1, 1>> }

ScaleInit ==
    /\ call_args \in [detections : SubLists(ScaleDetectionChoices), scale_factor : ScaleFactorChoices]
    /\ call_ret = <<>>

\* one call; every det is copied and its 'bbox' is replaced in the copy by a
\* new list, so the list passed in and its dictionaries are as before
ScaleDetections ==
    /\ call_args # <<>>
    /\ call_ret = <<>>
    /\ call_ret' = <<scale_detections(call_args.detections,
                                      call_args.scale_factor[1], call_args.scale_factor[2])>>
    /\ UNCHANGED <<call_args, mainVars, serviceVars>>

(***************************************************************************)
(* PlateDetector (plate_detector.py): the text of a plate.  A text is a    *)
(* sequence of one-character strings.                                      *)
(***************************************************************************)
LowerCase == <<"a", "b", "c", "d", "e", "f", "g", "h", "i", "j", "k", "l", "m", "n", "o", "p", "q", "r", "s", "t", "u", "v", "w", "x", "y", "z">>
UpperCase == <<"A", "B", "C", "D", "E", "F", "G", "H", "I", "J", "K", "L", "M", "N", "O", "P", "Q", "R", "S", "T", "U", "V", "W", "X", "Y", "Z">>

\* the character classes of the patterns: [A-Z], [0-9], \s
Letters == {UpperCase[i] : i \in DOMAIN UpperCase}
Digits == {"0", "1", "2", "3", "4", "5", "6", "7", "8", "9"}
Whitespace == {" ", "\t", "\n", "\r"}

\* str.upper() of one character
upper(c) ==
    IF \E i \in DOMAIN LowerCase : LowerCase[i] = c
    THEN <<UpperCase[CHOOSE i \in DOMAIN LowerCase : LowerCase[i] = c]>>
    ELSE <<c>>

\* text.upper()
RECURSIVE Upper(_)
Upper(text) == IF text = <<>> THEN <<>> ELSE upper(Head(text)) \o Upper(Tail(text))

\* re.sub(r'[^A-Z0-9]', '', text)
IsPlateChar(c) == c \in Letters \cup Digits
RemoveOthers(text) == SelectSeq(text, IsPlateChar)

\* text.replace(old, new) for single characters
Replace(text, old, new) == [i \in DOMAIN text |-> IF text[i] = old THEN new ELSE text[i]]

\* a cleanup that leaves G as it is
CleanKeepG(text) ==
    Replace(Replace(Replace(RemoveOthers(Upper(text)), "O", "0"), "I", "1"), "S", "5")

\* clean_plate_text(text)
clean_plate_text(text) ==
    LET cleaned == RemoveOthers(Upper(text))
        cleaned1 == Replace(cleaned, "O", "0")
        cleaned2 == Replace(cleaned1, "I", "1")
        cleaned3 == Replace(cleaned2, "S", "5")
    IN  Replace(cleaned3, "G", "6")

\* a '$' at the end of a pattern matches at the end of the text and before a
\* newline that ends the text: the texts the body of the pattern may cover
Bodies(text) ==
    {text} \cup (IF text # <<>> /\ text[Len(text)] = "\n" THEN {SubSeq(text, 1, Len(text) - 1)} ELSE {})

\* body is in [A-Z]{2}[0-9]{2}[A-Z]{n}[0-9]{4}
IndiaBody(body, n) ==
    /\ Len(body) = 8 + n
    /\ \A i \in 1..2 : body[i] \in Letters
    /\ \A i \in 3..4 : body[i] \in Digits
    /\ \A i \in 5..(4 + n) : body[i] \in Letters
    /\ \A i \in (5 + n)..(8 + n) : body[i] \in Digits

\* re.match(r'^[A-Z]{2}[0-9]{2}[A-Z]{2}[0-9]{4}$', text) is not None
india_old(text) == \E body \in Bodies(text) : IndiaBody(body, 2)

\* re.match(r'^[A-Z]{2}[0-9]{2}[A-Z]{1,2}[0-9]{4}$', text) is not None
india_new(text) == \E body \in Bodies(text) : IndiaBody(body, 1) \/ IndiaBody(body, 2)

\* re.match(r'^[A-Z0-9\-\s]+$', text) is not None
standard(text) ==
    \E body \in Bodies(text) :
        /\ Len(body) >= 1
        /\ \A i \in DOMAIN body : body[i] \in Letters \cup Digits \cup {"-"} \cup Whitespace

\* results['confidence_boost'], in thousandths
BoostValid == 200
BoostInvalid == -100

\* validate_plate_pattern(text)
validate_plate_pattern(text) ==
    LET valid == india_old(text) \/ india_new(text) \/ standard(text)
    IN  [ is_valid |-> valid,
          india_old |-> india_old(text),
          india_new |-> india_new(text),
          standard |-> standard(text),
          confidence_boost |-> IF valid THEN BoostValid ELSE BoostInvalid ]

\* texts to validate: a state code, a district number, a series and a number,
\* each well-formed or not, and what follows them; "INVALID123" and the empty
\* text are among them
PlateTextChoices ==
    LET StateCodes == { <<"M", "H">>, <<"m", "h">>, <<"M">>, <<"I", "N">>, <<>> }
        Districts == { <<"1", "2">>, <<"1">>, <<"V", "A">> }
        Series == { <<"A", "B">>, <<"A">>, <<>>, <<"A", "B", "C">>, <<"L", "I">> }
        Numbers == { <<"1", "2", "3", "4">>, <<"1", "2", "3">>, <<"D", "1", "2", "3">>, <<"1", "2", " ", "4">>, <<>> }
        Endings == { <<>>, <<"\n">>, <<"!">> }
    IN  { s \o d \o l \o n \o e : s \in StateCodes, d \in Districts, l \in Series, n \in Numbers, e \in Endings }

ValidateInit ==
    /\ call_args \in [text : PlateTextChoices]
    /\ call_ret = <<>>

ValidatePlatePattern ==
    /\ call_args # <<>>
    /\ call_ret = <<>>
    /\ call_ret' = <<validate_plate_pattern(call_args.text)>>
    /\ UNCHANGED <<call_args, mainVars, serviceVars>>

\* texts to clean: every text of at most MaxTextLen of these characters
CleanChars == {"O", "I", "S", "G", "A", "0", "5", "o", "g", "-", " "}
CleanTextChoices == UNION { [1..n -> CleanChars] : n \in 0..MaxTextLen }

CleanInit ==
    /\ call_args \in [text : CleanTextChoices]
    /\ call_ret = <<>>

\* clean_plate_text(text), then clean_plate_text of what it returned
CleanPlateText ==
    /\ call_args # <<>>
    /\ Len(call_ret) < 2
    /\ call_ret' = Append(call_ret,
                          clean_plate_text(IF call_ret = <<>> THEN call_args.text ELSE call_ret[1]))
    /\ UNCHANGED <<call_args, mainVars, serviceVars>>

(***************************************************************************)
(* Values of the variables of a program that is not running.               *)
(***************************************************************************)
MainIdle ==
    /\ MainInit
    /\ total_frames = 0
    /\ log_repeat_frames = 0

ServiceIdle ==
    /\ config = <<>>
    /\ stats = <<>>
    /\ result = <<>>
    /\ detectors = <<>>

\* the detectors of a service whose detector outputs are inputs of the model
DetectorsGiven == detectors = <<>>

CallIdle ==
    /\ call_args = <<>>
    /\ call_ret = <<>>

(***************************************************************************)
(* Specifications.                                                         *)
(***************************************************************************)
\* detect_helmets.py on a video of MaxFrame frames, any detections
Init ==
    /\ MainInit
    /\ total_frames = MaxFrame
    /\ log_repeat_frames \in LogRepeatChoices
    /\ ServiceIdle
    /\ CallIdle

Next ==
    \/ \E conf \in TrackerOutputs, helmet_boxes \in HelmetBoxSets :
          ProcessFrame(TracksOf(conf), helmet_boxes)
    \/ Finish

Spec == Init /\ [][Next]_vars

\* detect_helmets.py on a video of MaxFrameLong frames in which, after the
\* first WarmupFrames frames, track t1 is confirmed and bare-headed in every frame
InitContinuous ==
    /\ MainInit
    /\ total_frames = MaxFrameLong
    /\ log_repeat_frames \in LogRepeatChoicesLong
    /\ ServiceIdle
    /\ CallIdle

ContinuousInputs ==
    IF frame_idx < WarmupFrames
    THEN TrackerOutputs \X (HelmetBoxSets)
    ELSE {io \in [{"t1"} -> {TRUE}] \X (HelmetBoxSets) :
             ~HelmetPresent(TrackBox("t1"), io[2])}

NextContinuous ==
    \/ \E io \in ContinuousInputs : ProcessFrame(TracksOf(io[1]), io[2])
    \/ Finish

SpecContinuous == InitContinuous /\ [][NextContinuous]_vars

\* a DetectionService on which process_single_frame is called MaxCalls times
InitService ==
    /\ MainIdle
    /\ ServiceInit
    /\ DetectorsGiven
    /\ CallIdle

NextService ==
    \E frame_width \in FrameWidthChoices,
       helmet_detections \in HelmetDetectionLists,
       plate_detections \in PlateDetectionLists,
       timestamp_ms \in TimestampChoices,
       processing_time \in ProcessingTimeChoices :
        ProcessSingleFrame(frame_width, helmet_detections, plate_detections,
                           timestamp_ms, processing_time)

SpecService == InitService /\ [][NextService]_vars

\* a DetectionService and what its calls have returned so far
InitSession == InitService

NextSession ==
    \E frame_width \in {ResizeWidth},
       helmet_detections \in HelmetDetectionLists,
       plate_detections \in PlateDetectionLists,
       timestamp_ms \in TimestampChoices,
       processing_time \in ProcessingTimeChoices :
        ProcessSingleFrameInSession(frame_width, helmet_detections, plate_detections,
                                    timestamp_ms, processing_time)

SpecSession == InitSession /\ [][NextSession]_vars

\* detection_api.py: MaxThreads requests on the one module-level service
InitThreaded ==
    /\ MainIdle
    /\ ServiceInit
    /\ DetectorsGiven
    /\ ThreadedInit

NextThreaded ==
    \E r \in Threads :
        \/ LoadCounter(r)
        \/ StoreCounter(r)
        \/ AppendProcessingTime(r)

SpecThreaded == InitThreaded /\ [][NextThreaded]_vars

\* one service on which process_video_file is called for MaxVideos videos
InitVideo == InitService

NextVideo ==
    \E frames \in VideoChoices, skip_frames \in SkipFramesChoices :
        ProcessVideoFile(frames, skip_frames)

SpecVideo == InitVideo /\ [][NextVideo]_vars

\* one call of _find_nearest_plate on any helmet box and list of plates
InitNearest ==
    /\ MainIdle
    /\ ServiceIdle
    /\ CallInit

NextNearest == FindNearestPlate

SpecNearest == InitNearest /\ [][NextNearest]_vars

\* one call of _identify_violations on any detections of a frame
InitIdentify ==
    /\ MainIdle
    /\ ServiceInit
    /\ DetectorsGiven
    /\ IdentifyInit

NextIdentify == IdentifyViolations

SpecIdentify == InitIdentify /\ [][NextIdentify]_vars

\* the rider heuristic on the persons and bikes of one frame
InitRiders ==
    /\ MainIdle
    /\ ServiceIdle
    /\ RidersInit

NextRiders == IdentifyRiders

SpecRiders == InitRiders /\ [][NextRiders]_vars

\* the helmet test on any track box, helmet boxes and thresholds
InitHeadgear ==
    /\ MainIdle
    /\ ServiceIdle
    /\ HeadgearInit

NextHeadgear == ClassifyHelmet

SpecHeadgear == InitHeadgear /\ [][NextHeadgear]_vars

\* one call of _generate_results_summary at the end of a session
InitSummary ==
    /\ MainIdle
    /\ SummaryInit
    /\ DetectorsGiven

NextSummary == GenerateResultsSummary

SpecSummary == InitSummary /\ [][NextSummary]_vars

\* a DetectionService whose detectors can fail, on which
\* process_single_frame is called MaxCalls times
InitDegraded ==
    /\ MainIdle
    /\ DegradedInit

NextDegraded ==
    \E env \in DetectorEnvironments,
       timestamp_ms \in DegradedTimestamps,
       processing_time \in ProcessingTimeChoices :
        ProcessSingleFrameDegraded(env, timestamp_ms, processing_time)

SpecDegraded == InitDegraded /\ [][NextDegraded]_vars

\* iou_box on any two boxes of the grid
InitOverlap ==
    /\ MainIdle
    /\ ServiceIdle
    /\ OverlapInit

NextOverlap == IouBox

SpecOverlap == InitOverlap /\ [][NextOverlap]_vars

\* _scale_detections on a list of detections
InitScale ==
    /\ MainIdle
    /\ ServiceIdle
    /\ ScaleInit

NextScale == ScaleDetections

SpecScale == InitScale /\ [][NextScale]_vars

\* validate_plate_pattern on a text
InitValidate ==
    /\ MainIdle
    /\ ServiceIdle
    /\ ValidateInit

NextValidate == ValidatePlatePattern

SpecValidate == InitValidate /\ [][NextValidate]_vars

\* clean_plate_text on a text and on its own result
InitClean ==
    /\ MainIdle
    /\ ServiceIdle
    /\ CleanInit

NextClean == CleanPlateText

SpecClean == InitClean /\ [][NextClean]_vars

(***************************************************************************)
(* Properties of the frame loop of detect_helmets.py.                      *)
(***************************************************************************)
\* the frame of the last row of track t
LastRowFrame(t) == SetMax(RowFrames(csv_rows, t))

\* C1: a row is never appended for a track at a frame less than
\* log_repeat_frames after the track's previous row, unless the track was
\* seen with a helmet in between.
NoRelogWithinInterval ==
    [][\A t \in TrackIds :
          (/\ CsvRow(frame_idx', t) \in csv_rows' \ csv_rows
           /\ RowFrames(csv_rows, t) # {}
           /\ frame_idx' - LastRowFrame(t) < log_repeat_frames)
          => t \in seen_present]_vars

\* a track without helmet, inside the interval after its row, and no new row
C1Witness ==
    \E t \in DOMAIN helmet_present :
        /\ ~helmet_present[t]
        /\ t \notin seen_present
        /\ RowFrames(csv_rows, t) # {}
        /\ LastRowFrame(t) < frame_idx
        /\ frame_idx - LastRowFrame(t) < log_repeat_frames

\* C2: a track that got a row at frame e, was then seen with a helmet, and is
\* seen without one at a frame f with f - e < log_repeat_frames gets a fresh
\* row at frame f.
HelmetResetsDebounce ==
    [][\A t \in TrackIds :
          (/\ frame_idx' = frame_idx + 1
           /\ t \in seen_present
           /\ RowFrames(csv_rows, t) # {}
           /\ frame_idx' - LastRowFrame(t) < log_repeat_frames
           /\ t \in DOMAIN helmet_present'
           /\ ~helmet_present'[t])
          => CsvRow(frame_idx', t) \in csv_rows']_vars

\* C3: for a positive log_repeat_frames I, a track without helmet in every
\* frame since its row at frame e has, from e on, rows at exactly the frames
\* e, e + I, e + 2I, ...; with I = 30 a track bare-headed from frame 1 to
\* frame 100 has rows at frames 1, 31, 61 and 91 only.
ContinuousSchedule ==
    /\ \A t \in TrackIds :
          (log_repeat_frames > 0 /\ run_start[t] # 0) =>
              {f \in RowFrames(csv_rows, t) : f >= run_start[t]}
                  = {f \in run_start[t]..frame_idx :
                        (f - run_start[t]) % log_repeat_frames = 0}
    /\ (log_repeat_frames = 30 /\ run_start["t1"] = 1 /\ frame_idx >= 100) =>
          RowFrames(csv_rows, "t1") \cap (1..100) = {1, 31, 61, 91}

\* frame 91 of a track bare-headed since frame 1, with I = 30: the fourth row
C3Witness ==
    /\ log_repeat_frames = 30
    /\ run_start["t1"] = 1
    /\ frame_idx = 91
    /\ CsvRow(91, "t1") \in csv_rows

\* C4: for every positive log_repeat_frames and every frame >= 1, the first
\* frame in which a track without any debounce state is confirmed and
\* bare-headed appends a row and sets its last-logged frame to that frame.
FirstAbsenceLogs ==
    [][\A t \in TrackIds :
          (/\ frame_idx' = frame_idx + 1
           /\ log_repeat_frames > 0
           /\ t \notin DOMAIN track_last_logged_frame
           /\ t \notin DOMAIN track_violation_state
           /\ t \in DOMAIN helmet_present'
           /\ ~helmet_present'[t])
          => /\ CsvRow(frame_idx', t) \in csv_rows'
             /\ track_last_logged_frame'[t] = frame_idx']_vars

\* C5: a confirmed track seen with a helmet in a frame gets no row in that
\* frame and is left with its violation flag False, whatever its state was.
HelmetNeverLogs ==
    \A t \in DOMAIN helmet_present :
        helmet_present[t] =>
            /\ CsvRow(frame_idx, t) \notin csv_rows
            /\ t \in DOMAIN track_violation_state
            /\ track_violation_state[t] = FALSE

\* a track with an earlier row that is now seen with a helmet
C5Witness ==
    \E t \in DOMAIN helmet_present :
        /\ helmet_present[t]
        /\ RowFrames(csv_rows, t) # {}
        /\ t \in DOMAIN track_last_logged_frame

\* C6: a track the tracker reports as not confirmed is skipped: it is not
\* classified, gets no row, and its entries in both dictionaries are as before.
UnconfirmedSkipped ==
    [][\A t \in TrackIds :
          (/\ frame_idx' = frame_idx + 1
           /\ t \in DOMAIN tracks'
           /\ ~tracks'[t].confirmed)
          => /\ t \notin DOMAIN helmet_present'
             /\ CsvRow(frame_idx', t) \notin csv_rows'
             /\ (t \in DOMAIN track_last_logged_frame')
                   = (t \in DOMAIN track_last_logged_frame)
             /\ DictGet(track_last_logged_frame', t, NeverLogged)
                   = DictGet(track_last_logged_frame, t, NeverLogged)
             /\ (t \in DOMAIN track_violation_state')
                   = (t \in DOMAIN track_violation_state)
             /\ DictGet(track_violation_state', t, FALSE)
                   = DictGet(track_violation_state, t, FALSE)]_vars

\* a track that has a row and a True flag is reported as not confirmed
C6Witness ==
    \E t \in DOMAIN tracks :
        /\ ~tracks[t].confirmed
        /\ RowFrames(csv_rows, t) # {}
        /\ DictGet(track_violation_state, t, FALSE)

\* C25: after a frame, the violation flag of every track evaluated in it is
\* the frame's classification: True if no helmet was found for the track,
\* whether or not a row was written, and False if a helmet was found.
ViolationStateReflectsFrame ==
    \A t \in DOMAIN helmet_present :
        /\ t \in DOMAIN track_violation_state
        /\ track_violation_state[t] = ~helmet_present[t]

\* the debounce state of one track: its last logged frame, and its violation
\* flag if it has one
DebounceOf(tlf, tvs, t) ==
    <<DictGet(tlf, t, NeverLogged), t \in DOMAIN tvs, DictGet(tvs, t, FALSE)>>

\* C26: the debounce state is kept per track: a frame leaves the last logged
\* frame and the flag of every track it does not evaluate as they were, and
\* the state it leaves to a track it evaluates is determined by that track's
\* own state and classification, whatever the other tracks of the frame are.
DebounceIsolatedPerTrack ==
    [][frame_idx' # frame_idx =>
          \A t \in TrackIds :
              LET before == DebounceOf(track_last_logged_frame, track_violation_state, t)
                  after == DebounceOf(track_last_logged_frame', track_violation_state', t)
                  due == frame_idx' - before[1] >= log_repeat_frames
              IN  IF t \notin DOMAIN helmet_present' THEN after = before
                  ELSE IF helmet_present'[t] THEN after = <<before[1], TRUE, FALSE>>
                  ELSE IF due THEN after = <<frame_idx', TRUE, TRUE>>
                  ELSE after = before]_vars

\* two tracks without a helmet evaluated in one frame: a row is written for
\* one of them and none for the other, which keeps its earlier logged frame
C26Witness ==
    \E t, u \in DOMAIN helmet_present :
        /\ t # u
        /\ ~helmet_present[t] /\ ~helmet_present[u]
        /\ CsvRow(frame_idx, t) \in csv_rows
        /\ CsvRow(frame_idx, u) \notin csv_rows
        /\ track_last_logged_frame[u] < frame_idx
        /\ track_last_logged_frame[u] > NeverLogged

(***************************************************************************)
(* Properties of DetectionService.                                         *)
(***************************************************************************)
\* a plate _identify_violations accepts as valid
IsValidPlate(plate) ==
    plate.confidence >= config.min_plate_confidence /\ PatternValid(plate)

\* the valid plates among the plate detections of the last result
ResultValidPlates ==
    {result.plate_detections[k] : k \in {n \in 1..Len(result.plate_detections) :
                                            IsValidPlate(result.plate_detections[n])}}

\* the squared distance the service computes between a box and a plate
ComputedDistance2(bbox, plate) == Distance2(BoxCenter(bbox), BoxCenter(plate.bbox))

\* plate is, of the valid plates of the frame, one the service computes nearest to bbox
IsNearestValid(bbox, plate) ==
    /\ plate \in ResultValidPlates
    /\ \A q \in ResultValidPlates :
          ComputedDistance2(bbox, plate) <= ComputedDistance2(bbox, q)

\* C7: no two violation records of one frame carry the same plate.
PlateNeverShared ==
    result # <<>> =>
        \A i, j \in 1..Len(result.violations) :
            (i # j /\ result.violations[i].license_plate # None) =>
                result.violations[i].license_plate # result.violations[j].license_plate

\* C7, amended: two violation records of one frame carry the same plate only
\* when that plate is, for each of them, the valid plate nearest to its box.
PlateSharedOnlyWhenNearest ==
    result # <<>> =>
        \A i, j \in 1..Len(result.violations) :
            (/\ i # j
             /\ result.violations[i].license_plate # None
             /\ result.violations[i].license_plate = result.violations[j].license_plate)
            => /\ IsNearestValid(result.violations[i].location_bbox,
                                 result.violations[i].license_plate)
               /\ IsNearestValid(result.violations[j].location_bbox,
                                 result.violations[i].license_plate)

\* two records of a frame with two valid plates carry the same plate
C7Witness ==
    /\ result # <<>>
    /\ Cardinality(ResultValidPlates) >= 2
    /\ Len(result.violations) >= 2
    /\ result.violations[1].license_plate # None
    /\ result.violations[1].license_plate = result.violations[2].license_plate

\* C8: in a frame without valid plate, a service that requires a plate returns
\* no violation record and leaves violations_detected as it was; a service
\* that does not returns every helmet violation, in order, without plate.
PlateRequiredGate ==
    [][(/\ stats # <<>>
        /\ stats'.total_frames_processed = stats.total_frames_processed + 1
        /\ \A k \in 1..Len(result'.plate_detections) :
              ~IsValidPlate(result'.plate_detections[k]))
       => IF config.require_plate_for_violation
          THEN /\ result'.violations = <<>>
               /\ stats'.violations_detected = stats.violations_detected
          ELSE LET hv == SelectSeq(result'.helmet_detections,
                                   LAMBDA det :
                                       /\ det.violation_type = "NO_HELMET"
                                       /\ det.confidence >= config.min_helmet_confidence)
               IN  /\ Len(result'.violations) = Len(hv)
                   /\ \A i \in 1..Len(hv) :
                         /\ result'.violations[i].helmet_detection = hv[i]
                         /\ result'.violations[i].license_plate = None
                   /\ stats'.violations_detected = stats.violations_detected + Len(hv)]_vars

\* a frame with a helmet violation and only an invalid plate, plate required:
\* nothing is returned
C8Witness ==
    /\ result # <<>>
    /\ config.require_plate_for_violation
    /\ result.plate_detections # <<>>
    /\ ResultValidPlates = {}
    /\ \E k \in 1..Len(result.helmet_detections) :
          result.helmet_detections[k].violation_type = "NO_HELMET"
    /\ result.violations = <<>>
    /\ stats.violations_detected = 0

\* C27: after any number of calls of process_single_frame, one after another,
\* total_frames_processed is the number of calls that have returned and the
\* number of entries of processing_time_ms, and violations_detected is the
\* number of records those calls returned (a record dropped for want of a
\* plate is not counted).
SessionCountersExact ==
    /\ stats.total_frames_processed = Len(call_ret)
    /\ Len(stats.processing_time_ms) = Len(call_ret)
    /\ stats.violations_detected = SeqSum([i \in DOMAIN call_ret |-> Len(call_ret[i])])

\* two calls on a service that requires a plate: the first returned a record,
\* the second dropped the record of a no-helmet detection
C27Witness ==
    /\ Len(call_ret) = 2
    /\ config.require_plate_for_violation
    /\ Len(call_ret[1]) >= 1
    /\ Len(call_ret[2]) = 0
    /\ \E i \in 1..Len(result.helmet_detections) :
          /\ result.helmet_detections[i].violation_type = "NO_HELMET"
          /\ result.helmet_detections[i].confidence >= config.min_helmet_confidence

\* C28: when the requests the front end handles at the same time have all
\* returned, total_frames_processed is the number of requests and
\* violations_detected is the number of records they returned: no update of
\* a counter is lost.
ThreadedCountersExact ==
    (\A r \in Threads : call_ret[r].counter = "done") =>
        /\ stats.total_frames_processed = Cardinality(Threads)
        /\ stats.violations_detected = SeqSum([r \in Threads |-> call_ret[r].returned])

\* the ids of the records the calls have returned, one after another
RECURSIVE Flatten(_)
Flatten(lists) == IF lists = <<>> THEN <<>> ELSE Head(lists) \o Flatten(Tail(lists))

\* C29: no two records returned by one service carry the same id, whether
\* they come from one frame or from different frames.
RecordIdsUnique ==
    LET ids == Flatten(call_ret)
    IN  \A i, j \in DOMAIN ids : i # j => ids[i] # ids[j]

(***************************************************************************)
(* Properties of _find_nearest_plate.                                      *)
(***************************************************************************)
\* twice the centre (x + w/2, y + h/2) of a box
TrueCenter2(bbox) == <<2 * bbox[1] + bbox[3], 2 * bbox[2] + bbox[4]>>

\* four times the squared Euclidean distance between the centres of two boxes
TrueDistance2(a, b) == Distance2(TrueCenter2(a), TrueCenter2(b))

\* C9: for a non-empty list of candidates the correlator returns a candidate
\* whose Euclidean distance between the box centres (x + w/2, y + h/2) is
\* minimal among all candidates.
NearestByCenterDistance ==
    (call_ret # <<>> /\ call_args.plates # <<>>) =>
        /\ call_ret[1] # None
        /\ \A i \in 1..Len(call_args.plates) :
              TrueDistance2(call_args.helmet_bbox, call_ret[1].bbox)
                  <= TrueDistance2(call_args.helmet_bbox, call_args.plates[i].bbox)

\* C10: of the candidates at the smallest computed distance the correlator
\* returns the one that comes first in the list; it returns None for an
\* empty list.
FirstOfTiedWins ==
    call_ret # <<>> =>
        IF call_args.plates = <<>> THEN call_ret[1] = None
        ELSE \E i \in 1..Len(call_args.plates) :
                /\ call_ret[1] = call_args.plates[i]
                /\ \A j \in 1..Len(call_args.plates) :
                      /\ j < i => ComputedDistance2(call_args.helmet_bbox, call_args.plates[j])
                                     > ComputedDistance2(call_args.helmet_bbox, call_args.plates[i])
                      /\ j > i => ComputedDistance2(call_args.helmet_bbox, call_args.plates[j])
                                     >= ComputedDistance2(call_args.helmet_bbox, call_args.plates[i])

\* two candidates tie at the smallest computed distance and the earlier is returned
C10Witness ==
    /\ call_ret # <<>>
    /\ \E i, j \in 1..Len(call_args.plates) :
          /\ i < j
          /\ ComputedDistance2(call_args.helmet_bbox, call_args.plates[i])
                = ComputedDistance2(call_args.helmet_bbox, call_args.plates[j])
          /\ \A k \in 1..Len(call_args.plates) :
                ComputedDistance2(call_args.helmet_bbox, call_args.plates[k])
                    >= ComputedDistance2(call_args.helmet_bbox, call_args.plates[i])
          /\ call_ret[1] = call_args.plates[i]

(***************************************************************************)
(* Properties of _identify_violations.                                     *)
(***************************************************************************)
\* the plates handed to the call
ArgPlates == {call_args.plate_detections[k] : k \in 1..Len(call_args.plate_detections)}

\* the plates of ArgPlates the service computes nearest to bbox, valid or not
NearestOfAll(bbox) ==
    {p \in ArgPlates :
        \A q \in ArgPlates : ComputedDistance2(bbox, p) <= ComputedDistance2(bbox, q)}

\* C11: every plate carried by a returned violation record is one of the
\* frame's plates, has a confidence of at least min_plate_confidence, and has
\* a 'pattern_match' whose 'is_valid' is True.
OnlyValidPlatesAttached ==
    call_ret # <<>> =>
        \A i \in 1..Len(call_ret[1]) :
            LET plate == call_ret[1][i].license_plate
            IN  plate # None =>
                    /\ plate \in ArgPlates
                    /\ plate.confidence >= config.min_plate_confidence
                    /\ "pattern_match" \in DOMAIN plate
                    /\ plate.pattern_match.is_valid = TRUE

\* a record carries a plate although a plate that fails the tests is nearer
C11Witness ==
    /\ call_ret # <<>>
    /\ \E i \in 1..Len(call_ret[1]) :
          LET record == call_ret[1][i]
          IN  /\ record.license_plate # None
              /\ record.license_plate \notin NearestOfAll(record.location_bbox)
              /\ \E p \in NearestOfAll(record.location_bbox) : "pattern_match" \notin DOMAIN p
    /\ \E p \in ArgPlates : p.confidence < config.min_plate_confidence
    /\ \E p \in ArgPlates : "pattern_match" \in DOMAIN p /\ ~p.pattern_match.is_valid

\* C12: the confidence of a returned record with a plate is the arithmetic
\* mean of the confidences of its helmet detection and of its plate; that of
\* a record without plate is the confidence of its helmet detection.
FusedConfidenceIsMean ==
    call_ret # <<>> =>
        \A i \in 1..Len(call_ret[1]) :
            LET record == call_ret[1][i]
                score == record.confidence_score
            IN  IF record.license_plate # None
                THEN 2 * score[1] = score[2] * (record.helmet_detection.confidence
                                                 + record.license_plate.confidence)
                ELSE score[1] = score[2] * record.helmet_detection.confidence

\* a record with a plate whose two confidences differ and have an odd sum
C12Witness ==
    /\ call_ret # <<>>
    /\ \E i \in 1..Len(call_ret[1]) :
          /\ call_ret[1][i].license_plate # None
          /\ (call_ret[1][i].helmet_detection.confidence
                 + call_ret[1][i].license_plate.confidence) % 2 = 1
          /\ call_ret[1][i].license_plate.confidence
                 # call_ret[1][i].helmet_detection.confidence

(***************************************************************************)
(* Properties of the rider heuristic.                                      *)
(***************************************************************************)
\* the elements of a list
Elements(list) == {list[i] : i \in 1..Len(list)}

\* person and vehicle overlap by more than 0.01, or their centres are less
\* than 1.5 vehicle widths apart horizontally and less than 1.5 vehicle
\* heights apart vertically
RiderOf(person, vehicle) ==
    LET ov == iou_box(BoxOf(person), BoxOf(vehicle))
    IN  \/ 100 * ov[1] > ov[2]
        \/ /\ Abs((person[1] + person[3]) - (vehicle[1] + vehicle[3]))
                  < 3 * (vehicle[3] - vehicle[1])
           /\ Abs((person[2] + person[4]) - (vehicle[2] + vehicle[4]))
                  < 3 * (vehicle[4] - vehicle[2])

\* C13: in a frame with at least one vehicle, whether or not the flag is set,
\* the persons output as riders are exactly the persons that are RiderOf some
\* vehicle of the frame.
RidersExactlyNearVehicles ==
    (call_ret # <<>> /\ call_args.bikes # <<>>) =>
        /\ Elements(call_ret[1]) \subseteq Elements(call_args.persons)
        /\ \A person \in Elements(call_args.persons) :
              (person \in Elements(call_ret[1]))
                  <=> \E vehicle \in Elements(call_args.bikes) : RiderOf(person, vehicle)

\* C14: in a frame without vehicle the output is every person when the flag
\* is set and nobody when it is not.
NoVehicleFallback ==
    (call_ret # <<>> /\ call_args.bikes = <<>>) =>
        IF call_args.treat_all_persons_as_riders
        THEN call_ret[1] = call_args.persons
        ELSE call_ret[1] = <<>>

\* two persons, no vehicle, the flag set: both are output
C14Witness ==
    /\ call_ret # <<>>
    /\ call_args.bikes = <<>>
    /\ call_args.treat_all_persons_as_riders
    /\ Len(call_args.persons) >= 2
    /\ call_ret[1] = call_args.persons

(***************************************************************************)
(* Properties of the helmet test.                                          *)
(***************************************************************************)
\* the head region of the call: the top head_fraction of the track box, in
\* whole pixels
HeadRegion ==
    LET l == call_args.ltrb[1]
        t == call_args.ltrb[2]
        r == call_args.ltrb[3]
        b == call_args.ltrb[4]
    IN  <<l, t, r, t + ((b - t) * call_args.head_fraction[1]) \div call_args.head_fraction[2]>>

\* the helmet boxes of the call whose overlap with the head region is at
\* least the threshold, or whose centre lies in the region, boundary included
MatchingHeadgear ==
    {hb \in Elements(call_args.helmet_boxes_list) :
        \/ OvAtLeast(iou_box(HeadRegion, hb.box),
                     call_args.helmet_iou_threshold[1], call_args.helmet_iou_threshold[2])
        \/ /\ 2 * HeadRegion[1] <= hb.box[1] + hb.box[3]
           /\ hb.box[1] + hb.box[3] <= 2 * HeadRegion[3]
           /\ 2 * HeadRegion[2] <= hb.box[2] + hb.box[4]
           /\ hb.box[2] + hb.box[4] <= 2 * HeadRegion[4]}

ZeroDenominatorsGuarded ==
    call_ret # <<>> =>
        /\ call_ret[1] # ZeroDivisionError
        /\ (call_args.fps = 0 \/ call_args.total_frames = 0) =>
              call_ret[1].detection_results.violation_rate_per_minute[1] = 0
        /\ SeqSum(stats.processing_time_ms) = 0 =>
              call_ret[1].performance_metrics.processing_fps[1] = 0

\* C30: the summary process_video_file returns describes its video only:
\* frames_processed is the number of frames of that video that were
\* processed, so at most total_frames, and unique_plates <=
\* violations_with_plates <= total_violations, also on a service that has
\* processed other videos before.
SummaryOfThisVideoOnly ==
    call_ret # <<>> =>
        /\ result.video_info.frames_processed = call_ret[Len(call_ret)]
        /\ result.video_info.frames_processed <= result.video_info.total_frames
        /\ result.detection_results.unique_plates <= result.detection_results.violations_with_plates
        /\ result.detection_results.violations_with_plates <= result.detection_results.total_violations

(***************************************************************************)
(* Properties of process_single_frame with failing detectors.              *)
(***************************************************************************)
\* the plates OCR reads in the regions of the last call
RegionsRead == SelectSeq(call_args.regions, LAMBDA plate_info : plate_info # None)

\* C17: every call of process_single_frame returns a result and is counted
\* in total_frames_processed, whatever failed in it or in an earlier call.
\* The result has no helmet detection when the model could not be loaded or
\* inference raised, and no plate when plate detection raised or the OCR
\* reader could not be loaded; otherwise it has the detections of the frame.
DetectorFailureTolerated ==
    [][/\ result' # <<>>
       /\ stats'.total_frames_processed = stats.total_frames_processed + 1
       /\ Len(stats'.processing_time_ms) = Len(stats.processing_time_ms) + 1
       /\ result'.helmet_detections =
             IF (~detectors.model_loaded /\ ~call_args'.model_loads)
                   \/ call_args'.inference_raises
             THEN <<>> ELSE call_args'.boxes
       /\ result'.plate_detections =
             IF call_args'.cv_raises
                   \/ (~detectors.ocr_reader_loaded /\ ~call_args'.reader_loads)
             THEN <<>> ELSE RegionsRead']_vars

\* the second call finds everything of its frame although both detectors
\* failed in the first call
C17Witness ==
    /\ detectors # <<>>
    /\ call_args # <<>>
    /\ call_args.failed_before
    /\ stats.total_frames_processed = 2
    /\ ~call_ret[1]
    /\ Len(result.helmet_detections) = 2
    /\ Len(result.plate_detections) = 1
    /\ Len(call_args.regions) = 2

(***************************************************************************)
(* Properties of the configuration.                                        *)
(***************************************************************************)
\* C18: no frame is processed under an invalid configuration: once a frame
\* has been read, the re-log interval is positive and the overlap threshold
\* and the head fraction lie in [0, 1].
InvalidConfigurationRejected ==
    frame_idx > 0 =>
        /\ log_repeat_frames > 0
        /\ 0 <= HelmetIouNum /\ HelmetIouNum <= HelmetIouDen
        /\ 0 <= HeadFractionNum /\ HeadFractionNum <= HeadFractionDen

(***************************************************************************)
(* Properties of iou_box.                                                  *)
(***************************************************************************)
\* both boxes contain a common unit cell of the grid: they intersect with
\* positive area
IntersectWithArea(p, q) ==
    \E x, y \in 0..(MaxCoord - 1) :
        /\ p[1] <= x /\ x + 1 <= p[3] /\ p[2] <= y /\ y + 1 <= p[4]
        /\ q[1] <= x /\ x + 1 <= q[3] /\ q[2] <= y /\ y + 1 <= q[4]

\* C19: iou_box(a, b) and iou_box(b, a) are the same value, for all boxes.
OverlapSymmetric ==
    Len(call_ret) = 2 => call_ret[1] = call_ret[2]

\* two boxes of different area that overlap, both orders evaluated
C19Witness ==
    /\ Len(call_ret) = 2
    /\ call_ret[1][1] > 0
    /\ call_ret[1][1] < call_ret[1][2]
    /\ (call_args.a[3] - call_args.a[1]) * (call_args.a[4] - call_args.a[2])
          # (call_args.b[3] - call_args.b[1]) * (call_args.b[4] - call_args.b[2])

\* C20: iou_box returns a value in [0, 1], and exactly 0 for two boxes that
\* do not intersect with positive area, among them boxes that touch, boxes
\* of zero area and boxes of negative width or height.
OverlapZeroWithoutIntersection ==
    \A k \in 1..Len(call_ret) :
        /\ 0 <= call_ret[k][1]
        /\ call_ret[k][1] <= call_ret[k][2]
        /\ ~IntersectWithArea(call_args.a, call_args.b) => call_ret[k][1] = 0

\* a box of negative width and height within the other box: the product of
\* the two negative extents of the intersection is positive, and 0 is returned
C20Witness ==
    /\ Len(call_ret) >= 1
    /\ call_args.a[3] < call_args.a[1]
    /\ call_args.a[4] < call_args.a[2]
    /\ call_args.b[1] <= call_args.a[3] /\ call_args.a[1] <= call_args.b[3]
    /\ call_args.b[2] <= call_args.a[4] /\ call_args.a[2] <= call_args.b[4]
    /\ call_ret[1] = <<0, 1>>

\* C21: iou_box(a, a) is 1.0 for every box a of positive area: the value
\* returned is neither below nor above 1.
SelfOverlapIsOne ==
    \A k \in 1..Len(call_ret) :
        (/\ call_args.a = call_args.b
         /\ call_args.a[1] < call_args.a[3]
         /\ call_args.a[2] < call_args.a[4])
        => (OvAtLeast(call_ret[k], 1, 1) /\ ~OvGreater(call_ret[k], 1, 1))

(***************************************************************************)
(* Properties of _scale_detections.                                        *)
(***************************************************************************)
\* c is v * n / d without its fractional part
Truncated(c, v, n, d) ==
    /\ d * Abs(c) <= Abs(v) * n
    /\ Abs(v) * n < d * (Abs(c) + 1)
    /\ (c > 0 => v > 0) /\ (c < 0 => v < 0)

\* C24: _scale_detections returns as many detections as it is given, in the
\* same order, each with the four components of its bbox multiplied by the
\* scale factor and truncated and with every other field as it was, and
\* leaves the detections it is given as they were.
ScaledCopyReturned ==
    [][call_ret' # call_ret =>
          LET given == call_args.detections
              sf == call_args.scale_factor
              scaled == call_ret'[1]
          IN  /\ call_args' = call_args
              /\ Len(scaled) = Len(given)
              /\ \A i \in 1..Len(given) :
                    /\ DOMAIN scaled[i] = DOMAIN given[i]
                    /\ \A key \in DOMAIN given[i] \ {"bbox"} : scaled[i][key] = given[i][key]
                    /\ "bbox" \in DOMAIN given[i] =>
                          \A k \in 1..4 : Truncated(scaled[i].bbox[k], given[i].bbox[k], sf[1], sf[2])]_vars

\* a detection at negative coordinates scaled by 3/2: -7 becomes -10, -1
\* becomes -1, and the confidence is the one given
C24Witness ==
    /\ call_ret # <<>>
    /\ call_args.scale_factor = <<3, 2>>
    /\ \E i \in 1..Len(call_args.detections) :
          /\ call_args.detections[i] = ScaleDetectionChoices[2]
          /\ call_ret[1][i] = [bbox |-> <<-10, -1, 37, 46>>, confidence |-> 650]

(***************************************************************************)
(* Properties of the text of a plate.                                      *)
(***************************************************************************)
\* two letters, two digits, n letters and four digits, and nothing else
WellFormed(text, n) ==
    /\ Len(text) = 8 + n
    /\ \A i \in DOMAIN text :
          text[i] \in (IF i \in {1, 2} \cup 5..(4 + n) THEN Letters ELSE Digits)

\* C22: validate_plate_pattern reports a boolean for each named pattern and
\* an overall is_valid, which is False for a text that is not a well-formed
\* plate (such as INVALID123); a text of two letters, two digits, two letters
\* and four digits matches india_old, and one with a single letter in the
\* third group matches india_new.
PatternValidationReported ==
    call_ret # <<>> =>
        LET text == call_args.text
            results == call_ret[1]
        IN  /\ {results.india_old, results.india_new, results.standard, results.is_valid} \subseteq BOOLEAN
            /\ ~(WellFormed(text, 1) \/ WellFormed(text, 2)) => results.is_valid = FALSE
            /\ WellFormed(text, 2) => results.india_old = TRUE
            /\ WellFormed(text, 1) => results.india_new = TRUE

\* the digit an ambiguous letter is read as
Corrected(c) ==
    CASE c = "O" -> "0"
      [] c = "I" -> "1"
      [] c = "S" -> "5"
      [] c = "G" -> "6"
      [] OTHER -> c

\* C23: clean_plate_text returns the upper-cased input without the characters
\* outside A-Z and 0-9, in order, with O, I, S, G replaced by 0, 1, 5, 6; the
\* result holds no O, I, S or G, and cleaning the result again returns it.
CleanedOnceAndForAll ==
    /\ Len(call_ret) >= 1 =>
          LET kept == SelectSeq(Upper(call_args.text), IsPlateChar)
          IN  /\ call_ret[1] = [i \in DOMAIN kept |-> Corrected(kept[i])]
              /\ \A i \in DOMAIN call_ret[1] : call_ret[1][i] \notin {"O", "I", "S", "G"}
    /\ Len(call_ret) = 2 => call_ret[2] = call_ret[1]

\* a text with a lower-case letter, a separator and an ambiguous letter,
\* cleaned twice
C23Witness ==
    /\ Len(call_ret) = 2
    /\ call_args.text = <<"o", "-", "G">>
    /\ call_ret[1] = <<"0", "6">>

====
